---- MODULE Spec2Model ----
(***************************************************************************)
(* Model of mf-logwrapper (src/index.js): the pino base logger built from  *)
(* the 'logger' configuration, the child loggers derived by getLogger,     *)
(* and the ContextLogger wrapper with its plain severity methods and the   *)
(* function-context methods debugF and traceF.                             *)
(***************************************************************************)
EXTENDS Integers, Sequences, FiniteSets, TLC

VARIABLES config, loggerConfig, sinks, loggers, heap, out, last

vars == <<config, loggerConfig, sinks, loggers, heap, out, last>>

----------------------------------------------------------------------------
(* Bounds *)

\* most ContextLogger instances in one behaviour
MaxLoggers == 1
\* most pino logger instances (root and base included) in one behaviour
MaxSinks == 4

----------------------------------------------------------------------------
(* JavaScript values.  Every value is a record of the same shape: t is the *)
(* type tag, n the number / boolean / object reference, s the string.      *)

Undef == [t |-> "undefined", n |-> 0, s |-> ""]
Null == [t |-> "null", n |-> 0, s |-> ""]
Num(k) == [t |-> "number", n |-> k, s |-> ""]
Bool(b) == [t |-> "boolean", n |-> IF b THEN 1 ELSE 0, s |-> ""]
Str(x) == [t |-> "string", n |-> 0, s |-> x]
Ref(i) == [t |-> "ref", n |-> i, s |-> ""]

\* the typeof operator
Typeof(v) ==
    CASE v.t = "undefined" -> "undefined"
      [] v.t = "null" -> "object"
      [] v.t = "number" -> "number"
      [] v.t = "boolean" -> "boolean"
      [] v.t = "string" -> "string"
      [] v.t = "ref" -> "object"

\* ToBoolean, as applied by the || operator
Truthy(v) ==
    CASE v.t = "undefined" -> FALSE
      [] v.t = "null" -> FALSE
      [] v.t = "number" -> v.n # 0
      [] v.t = "boolean" -> v.n = 1
      [] v.t = "string" -> v.s # ""
      [] v.t = "ref" -> TRUE

\* a || b
Or(a, b) == IF Truthy(a) THEN a ELSE b

\* a === b (object references compare by identity)
StrictEq(a, b) == a = b

----------------------------------------------------------------------------
(* Module initialisation: configuration and base logger *)

\* the process identifier, always present
ProcessPid == Num(7)

\* values the configuration holds under logger.level (Undef: key absent)
ConfigLevels == {Undef, Str(""), Str("debug")}
\* values the configuration holds under logger.enabled (Undef: key absent)
ConfigEnableds == {Undef, Bool(FALSE), Bool(TRUE), Num(0), Str(""), Null}
\* values of appName (Undef: key absent)
ConfigAppNames == {Undef, Str(""), Str("app")}
\* values of process.argv[1]
Argv1s == {Undef, Str("script")}

\* every configuration: with or without a 'logger' section
Configs ==
    [hasLogger : {TRUE}, level : ConfigLevels, enabled : ConfigEnableds,
     appName : ConfigAppNames, argv1 : Argv1s]
    \cup
    [hasLogger : {FALSE}, level : {Undef}, enabled : {Undef},
     appName : ConfigAppNames, argv1 : Argv1s]

\* the configurations the logging behaviours start from
LogConfigs ==
    { [hasLogger |-> FALSE, level |-> Undef, enabled |-> Undef,
       appName |-> Undef, argv1 |-> Str("script")],
      [hasLogger |-> TRUE, level |-> Undef, enabled |-> Bool(FALSE),
       appName |-> Str("app"), argv1 |-> Str("script")] }

\* let loggerConfig = {}; if (config.has('logger')) loggerConfig = config.get('logger')
ReadLoggerConfig(cfg) ==
    IF cfg.hasLogger
    THEN [level |-> cfg.level, enabled |-> cfg.enabled]
    ELSE [level |-> Undef, enabled |-> Undef]

\* loggerConfig.level = loggerConfig.level || 'info'
ResolveLevel(level) == Or(level, Str("info"))

ResolveEnabledTruthy(enabled) ==
    IF enabled = Undef THEN Bool(TRUE) ELSE Bool(Truthy(enabled))

\* loggerConfig.enabled = !(loggerConfig.enabled === false)
ResolveEnabled(enabled) == Bool(~StrictEq(enabled, Bool(FALSE)))

\* the options pino is constructed with
ResolveLoggerConfig(cfg) ==
    LET lc == ReadLoggerConfig(cfg)
    IN  [level |-> ResolveLevel(lc.level), enabled |-> ResolveEnabled(lc.enabled)]

\* let appName; if (config.has('appName')) appName = config.get('appName')
\* _app: (appName || process.argv[1] || process.pid)
AppIdentity(cfg) == Or(Or(cfg.appName, cfg.argv1), ProcessPid)

\* a pino logger instance: the logger it was derived from (0 for the root)
\* and the fields bound to it, in binding order
Binding(k, v) == [key |-> k, value |-> v]

\* pino(loggerConfig): the root logger, no bound fields
RootSink == [parent |-> 0, bindings |-> <<>>]

\* parent.child({key: value}): a new logger that carries the parent's bound
\* fields followed by the new one; the parent is left as it was
Child(ss, parent, k, v) ==
    Append(ss, [parent |-> parent,
                bindings |-> Append(ss[parent].bindings, Binding(k, v))])

\* index of the root logger and of baseLogger in sinks
logger == 1
baseLogger == 2

\* the loggers that exist once the module is loaded
InitSinks(cfg) == Child(<<RootSink>>, logger, "_app", AppIdentity(cfg))

----------------------------------------------------------------------------
(* getLogger *)

ProvidedTruthy(name) == Truthy(name)

\* moduleName !== undefined, classFileName !== undefined
Provided(name) == name # Undef

getLoggerFromBase(ss, moduleName, classFileName) ==
    LET s1 == IF Provided(moduleName)
              THEN Child(ss, baseLogger, "_mod", moduleName)
              ELSE ss
        s2 == IF Provided(classFileName)
              THEN Child(s1, baseLogger, "_cls", classFileName)
              ELSE s1
    IN  [sinks |-> s2,
         newLogger |-> IF Len(s2) > Len(ss) THEN Len(s2) ELSE baseLogger]

\* getLogger(moduleName, classFileName): the loggers after the call and the
\* logger returned
getLogger(ss, moduleName, classFileName) ==
    LET l0 == baseLogger
        s1 == IF Provided(moduleName)
              THEN Child(ss, l0, "_mod", moduleName)
              ELSE ss
        l1 == IF Provided(moduleName) THEN Len(s1) ELSE l0
        s2 == IF Provided(classFileName)
              THEN Child(s1, l1, "_cls", classFileName)
              ELSE s1
        l2 == IF Provided(classFileName) THEN Len(s2) ELSE l1
    IN  [sinks |-> s2, newLogger |-> l2]

\* how many loggers getLogger derives for the given names
Derived(moduleName, classFileName) ==
    (IF Provided(moduleName) THEN 1 ELSE 0)
    + (IF Provided(classFileName) THEN 1 ELSE 0)

----------------------------------------------------------------------------
(* Objects *)

\* the property names that occur
Keys == {"a", "0", "1", "_fun"}

\* marks a property the object does not have
Absent == [t |-> "absent", n |-> 0, s |-> ""]

EmptyFields == [k \in Keys |-> Absent]

\* an object: kind "plain" for {...}, "array" for [...], "error" for an
\* instance of Error; fields are its own enumerable properties
Obj(kind, fields) == [kind |-> kind, fields |-> fields]

\* the objects the callers own and pass as arguments
CallerHeap ==
    << Obj("plain", [EmptyFields EXCEPT !["a"] = Num(1)]),
       Obj("plain", [EmptyFields EXCEPT !["a"] = Str("x"), !["_fun"] = Str("old")]),
       Obj("plain", EmptyFields),
       Obj("error", [EmptyFields EXCEPT !["a"] = Num(1)]),
       Obj("array", [EmptyFields EXCEPT !["0"] = Num(1), !["1"] = Str("x")]) >>

NObj == Len(CallerHeap)

\* the objects still referenced when a call starts: the callers' objects
\* (an object created for an earlier sink call is no longer referenced).
\* out holds the sink calls made by the latest logging call.
Live(h) == SubSeq(h, 1, NObj)

\* values passed as the first payload argument
FirstValues ==
    {Undef, Null, Num(1), Bool(FALSE), Str("msg")} \cup {Ref(i) : i \in 1..NObj}

\* the values passed after the first payload argument
RestLists == {<<>>, <<Str("msg"), Ref(1)>>}

\* values passed as functionName
FunctionNames == {Str("f"), Str("old")}

\* values passed as moduleName and classFileName
ModuleNames == {Undef, Str(""), Str("mod")}
ClassFileNames == {Undef, Str(""), Str("cls")}

\* the names the logging behaviours create their ContextLogger with
LogModuleNames == {Undef, Str("mod")}
LogClassFileNames == {Undef, Str("cls")}

\* the argument lists of a debugF or traceF call, functionName excluded
ArgLists == {<<>>} \cup {<<v>> \o r : v \in FirstValues, r \in RestLists}

\* the argument lists of a plain severity call: none, or a leading object,
\* error or message
PlainArgLists ==
    {<<>>} \cup {<<v>> \o r : v \in {Ref(1), Ref(4), Str("msg")}, r \in RestLists}

----------------------------------------------------------------------------
(* ContextLogger *)

\* new ContextLogger(pinoLogger)
ContextLogger(pinoLogger) == [pinoLogger |-> pinoLogger]

\* one call of a severity method of a pino logger
PinoCall(pinoLogger, level, args) ==
    [sink |-> pinoLogger, level |-> level, args |-> args]

\* the plain severity methods: this.pinoLogger.<level>(...args)
fatal(this, args) == <<PinoCall(this.pinoLogger, "fatal", args)>>
error(this, args) == <<PinoCall(this.pinoLogger, "error", args)>>
warnAsInfo(this, args) == <<PinoCall(this.pinoLogger, "info", args)>>
warn(this, args) == <<PinoCall(this.pinoLogger, "warn", args)>>
info(this, args) == <<PinoCall(this.pinoLogger, "info", args)>>
debug(this, args) == <<PinoCall(this.pinoLogger, "debug", args)>>
trace(this, args) == <<PinoCall(this.pinoLogger, "trace", args)>>

Levels == {"fatal", "error", "warn", "info", "debug", "trace"}

\* the plain severity method of the given name
Method(name, this, args) ==
    CASE name = "fatal" -> fatal(this, args)
      [] name = "error" -> error(this, args)
      [] name = "warn" -> warn(this, args)
      [] name = "info" -> info(this, args)
      [] name = "debug" -> debug(this, args)
      [] name = "trace" -> trace(this, args)

HasArgsAlways(args) == TRUE

\* args.length > 0
HasArgs(args) == Len(args) > 0

\* args[i], zero-based; undefined past the end
Nth(args, i) == IF i + 1 \in 1..Len(args) THEN args[i + 1] ELSE Undef

InstanceofErrorNever(h, v) == FALSE

\* v instanceof Error
InstanceofError(h, v) == v.t = "ref" /\ h[v.n].kind = "error"

IsObjectOrNull(v) == Typeof(v) = "object"

\* typeof v === 'object' && v !== null
IsObject(v) == Typeof(v) = "object" /\ v # Null

UnshiftAtEnd(args, v) == Append(args, v)

\* args.unshift(v)
Unshift(args, v) == <<v>> \o args

\* args[0] = v
SetFirst(args, v) == [args EXCEPT ![1] = v]

\* a new object literal {...}: the heap with it and the reference to it
New(h, fields) ==
    [heap |-> Append(h, Obj("plain", fields)), ref |-> Ref(Len(h) + 1)]

ObjectAssignAlias(h, source) == [heap |-> h, ref |-> source]

\* Object.assign({}, source): a new plain object with the own enumerable
\* properties of source (a null or undefined source contributes none)
ObjectAssign(h, source) ==
    IF source.t = "ref"
    THEN New(h, [k \in Keys |-> h[source.n].fields[k]])
    ELSE New(h, EmptyFields)

SetFunIfAbsent(h, obj, functionName) ==
    IF h[obj.n].fields["_fun"] = Absent
    THEN [h EXCEPT ![obj.n].fields["_fun"] = functionName]
    ELSE h

\* obj._fun = functionName
SetFun(h, obj, functionName) ==
    [h EXCEPT ![obj.n].fields["_fun"] = functionName]

\* debugF(functionName, ...args): the heap and the sink calls after it
debugF(this, h, functionName, args) ==
    IF HasArgs(args)
    THEN LET firstArg == Nth(args, 0)
         IN  IF InstanceofError(h, firstArg)
             THEN [heap |-> h, out |-> <<PinoCall(this.pinoLogger, "debug", args)>>]
             ELSE IF Typeof(firstArg) = "string"
             THEN LET o == New(h, [EmptyFields EXCEPT !["_fun"] = functionName])
                  IN  [heap |-> o.heap,
                       out |-> <<PinoCall(this.pinoLogger, "debug", Unshift(args, o.ref))>>]
             ELSE IF IsObject(firstArg)
             THEN LET newFirstArg == ObjectAssign(h, firstArg)
                  IN  [heap |-> SetFun(newFirstArg.heap, newFirstArg.ref, functionName),
                       out |-> <<PinoCall(this.pinoLogger, "debug",
                                          SetFirst(args, newFirstArg.ref))>>]
             ELSE [heap |-> h, out |-> <<PinoCall(this.pinoLogger, "debug", args)>>]
    ELSE [heap |-> h, out |-> <<>>]

\* traceF(functionName, ...args): the heap and the sink calls after it
traceF(this, h, functionName, args) ==
    IF HasArgs(args)
    THEN LET firstArg == Nth(args, 0)
         IN  IF InstanceofError(h, firstArg)
             THEN [heap |-> h, out |-> <<PinoCall(this.pinoLogger, "trace", args)>>]
             ELSE IF Typeof(firstArg) = "string"
             THEN LET o == New(h, [EmptyFields EXCEPT !["_fun"] = functionName])
                  IN  [heap |-> o.heap,
                       out |-> <<PinoCall(this.pinoLogger, "trace", Unshift(args, o.ref))>>]
             ELSE IF IsObject(firstArg)
             THEN LET newFirstArg == ObjectAssign(h, firstArg)
                  IN  [heap |-> SetFun(newFirstArg.heap, newFirstArg.ref, functionName),
                       out |-> <<PinoCall(this.pinoLogger, "trace",
                                          SetFirst(args, newFirstArg.ref))>>]
             ELSE [heap |-> h, out |-> <<PinoCall(this.pinoLogger, "trace", args)>>]
    ELSE [heap |-> h, out |-> <<>>]

\* getContextLogger(moduleName, classFileName): the loggers and the
\* ContextLogger instances after the call
getContextLogger(ss, cls, moduleName, classFileName) ==
    LET r == getLogger(ss, moduleName, classFileName)
    IN  [sinks |-> r.sinks, loggers |-> Append(cls, ContextLogger(r.newLogger))]

----------------------------------------------------------------------------
(* State and operations *)

\* the call made last: the operation, the ContextLogger it was made on, its
\* arguments, what it returned, and how many pino loggers there were before it
NoCall ==
    [op |-> "none", lg |-> 0, fn |-> Undef, args |-> <<>>,
     m |-> Undef, c |-> Undef, ret |-> 0, n |-> 0]

\* the state once the module is loaded with configuration cfg
Setup(cfg) ==
    /\ config = cfg
    /\ loggerConfig = ResolveLoggerConfig(cfg)
    /\ sinks = InitSinks(cfg)
    /\ loggers = <<>>
    /\ heap = CallerHeap
    /\ out = <<>>
    /\ last = NoCall

Init == \E cfg \in LogConfigs : Setup(cfg)

InitFactory == \E cfg \in Configs : Setup(cfg)

\* a caller calls getLogger(moduleName, classFileName)
GetLoggerCall(moduleName, classFileName) ==
    /\ Len(sinks) + Derived(moduleName, classFileName) <= MaxSinks
    /\ LET r == getLogger(sinks, moduleName, classFileName)
       IN  /\ sinks' = r.sinks
           /\ last' = [NoCall EXCEPT !.op = "getLogger", !.m = moduleName,
                                     !.c = classFileName, !.ret = r.newLogger,
                                     !.n = Len(sinks)]
    /\ UNCHANGED <<config, loggerConfig, loggers, heap, out>>

\* a caller calls getContextLogger(moduleName, classFileName)
GetContextLoggerCall(moduleName, classFileName) ==
    /\ Len(sinks) + Derived(moduleName, classFileName) <= MaxSinks
    /\ Len(loggers) < MaxLoggers
    /\ LET r == getContextLogger(sinks, loggers, moduleName, classFileName)
       IN  /\ sinks' = r.sinks
           /\ loggers' = r.loggers
           /\ last' = [NoCall EXCEPT !.op = "getContextLogger", !.m = moduleName,
                                     !.c = classFileName, !.ret = Len(r.loggers),
                                     !.n = Len(sinks)]
    /\ UNCHANGED <<config, loggerConfig, heap, out>>

\* a caller calls the plain severity method name of ContextLogger lg
PlainCall(name, lg, args) ==
    /\ out' = Method(name, loggers[lg], args)
    /\ heap' = Live(heap)
    /\ last' = [NoCall EXCEPT !.op = name, !.lg = lg, !.args = args]
    /\ UNCHANGED <<config, loggerConfig, sinks, loggers>>

Fatal(lg, args) == PlainCall("fatal", lg, args)
Error(lg, args) == PlainCall("error", lg, args)
Warn(lg, args) == PlainCall("warn", lg, args)
Info(lg, args) == PlainCall("info", lg, args)
Debug(lg, args) == PlainCall("debug", lg, args)
Trace(lg, args) == PlainCall("trace", lg, args)

\* a caller calls debugF(functionName, ...args) of ContextLogger lg
DebugF(lg, functionName, args) ==
    /\ LET r == debugF(loggers[lg], Live(heap), functionName, args)
       IN  /\ heap' = r.heap
           /\ out' = r.out
    /\ last' = [NoCall EXCEPT !.op = "debugF", !.lg = lg, !.fn = functionName,
                              !.args = args]
    /\ UNCHANGED <<config, loggerConfig, sinks, loggers>>

\* a caller calls traceF(functionName, ...args) of ContextLogger lg
TraceF(lg, functionName, args) ==
    /\ LET r == traceF(loggers[lg], Live(heap), functionName, args)
       IN  /\ heap' = r.heap
           /\ out' = r.out
    /\ last' = [NoCall EXCEPT !.op = "traceF", !.lg = lg, !.fn = functionName,
                              !.args = args]
    /\ UNCHANGED <<config, loggerConfig, sinks, loggers>>

Next ==
    \/ \E m \in LogModuleNames, c \in LogClassFileNames : GetContextLoggerCall(m, c)
    \/ \E lg \in DOMAIN loggers, args \in PlainArgLists : Fatal(lg, args)
    \/ \E lg \in DOMAIN loggers, args \in PlainArgLists : Error(lg, args)
    \/ \E lg \in DOMAIN loggers, args \in PlainArgLists : Warn(lg, args)
    \/ \E lg \in DOMAIN loggers, args \in PlainArgLists : Info(lg, args)
    \/ \E lg \in DOMAIN loggers, args \in PlainArgLists : Debug(lg, args)
    \/ \E lg \in DOMAIN loggers, args \in PlainArgLists : Trace(lg, args)
    \/ \E lg \in DOMAIN loggers, f \in FunctionNames, args \in ArgLists :
          DebugF(lg, f, args)
    \/ \E lg \in DOMAIN loggers, f \in FunctionNames, args \in ArgLists :
          TraceF(lg, f, args)

Spec == Init /\ [][Next]_vars

NextFactory ==
    \/ \E m \in ModuleNames, c \in ClassFileNames : GetLoggerCall(m, c)
    \/ \E m \in ModuleNames, c \in ClassFileNames : GetContextLoggerCall(m, c)

SpecFactory == InitFactory /\ [][NextFactory]_vars

----------------------------------------------------------------------------
(* Properties *)

\* the last call was debugF or traceF
LastIsF == last.op \in {"debugF", "traceF"}

\* the severity debugF and traceF log at
LevelOfF == IF last.op = "debugF" THEN "debug" ELSE "trace"

\* the last call was debugF or traceF with a first payload argument that
\* refers to a caller's object of the given kind
LastFirstArgKind(kind) ==
    /\ LastIsF
    /\ Len(last.args) > 0
    /\ last.args[1].t = "ref"
    /\ CallerHeap[last.args[1].n].kind = kind

\* the last call was debugF or traceF with a first payload argument of the
\* given primitive type tag
LastFirstArgTag(tag) ==
    /\ LastIsF
    /\ Len(last.args) > 0
    /\ last.args[1].t = tag

\* the sink of the last call's ContextLogger received exactly one call, at
\* the given level
OneCallAt(level) ==
    /\ Len(out) = 1
    /\ out[1].sink = loggers[last.lg].pinoLogger
    /\ out[1].level = level

\* the one sink call carries the caller's argument list as it was passed
PassedThrough(level) ==
    /\ OneCallAt(level)
    /\ out[1].args = last.args
    /\ heap = CallerHeap

\* C1: an object passed as first payload argument of debugF or traceF is
\* unchanged after any sequence of calls (no field added, none changed), and
\* the object the sink receives is another object than the caller's.
Thm_C1_CallerObjectUnchanged ==
    /\ Len(heap) >= NObj
    /\ \A i \in 1..NObj : heap[i] = CallerHeap[i]
    /\ LastFirstArgKind("plain") =>
          /\ Len(out) = 1
          /\ out[1].args[1].t = "ref"
          /\ out[1].args[1].n > NObj

Wit_C1_CallerObjectUnchanged ==
    /\ last.op = "debugF"
    /\ last.args = <<Ref(1), Str("msg"), Ref(1)>>
    /\ last.fn = Str("f")
    /\ heap[out[1].args[1].n].fields["_fun"] = Str("f")
    /\ heap[1].fields["_fun"] = Absent

\* C2: debugF(f, o, ...) with a plain object o makes exactly one debug call
\* whose first argument holds every field of o with the function-name
\* field set to f (also when o has one already), followed by the caller's
\* remaining arguments in order; traceF the same at trace level.
Thm_C2_ObjectMergedWithFunction ==
    LastFirstArgKind("plain") =>
        /\ OneCallAt(LevelOfF)
        /\ Len(out[1].args) = Len(last.args)
        /\ \A i \in 2..Len(last.args) : out[1].args[i] = last.args[i]
        /\ out[1].args[1].t = "ref"
        /\ out[1].args[1].n \in DOMAIN heap
        /\ heap[out[1].args[1].n] =
              Obj("plain", [k \in Keys |->
                              IF k = "_fun" THEN last.fn
                              ELSE CallerHeap[last.args[1].n].fields[k]])

Wit_C2_ObjectMergedWithFunction ==
    /\ last.op = "traceF"
    /\ last.args = <<Ref(2), Str("msg"), Ref(1)>>
    /\ last.fn = Str("f")
    /\ Len(out) = 1
    /\ heap[out[1].args[1].n].fields["_fun"] = Str("f")
    /\ heap[out[1].args[1].n].fields["a"] = Str("x")

\* C3: debugF(f) and traceF(f) without further arguments make no sink call
\* and create no object.
Thm_C3_NoArgsNoRecord ==
    (LastIsF /\ last.args = <<>>) => (out = <<>> /\ heap = CallerHeap)

Wit_C3_NoArgsNoRecord ==
    /\ last.op = "traceF"
    /\ last.args = <<>>
    /\ last.fn = Str("f")
    /\ out = <<>>

\* C4: with an Error instance as first payload argument, debugF makes the
\* sink call the plain debug makes for the same arguments, and traceF the
\* one trace makes; no object is created.
Thm_C4_ErrorSameAsPlain ==
    LastFirstArgKind("error") =>
        /\ out = Method(LevelOfF, loggers[last.lg], last.args)
        /\ PassedThrough(LevelOfF)

Wit_C4_ErrorSameAsPlain ==
    /\ last.op = "debugF"
    /\ last.args = <<Ref(4), Str("msg"), Ref(1)>>
    /\ Len(out) = 1
    /\ out[1].args[1] = Ref(4)

\* C5: with a string as first payload argument, debugF makes exactly one
\* debug call whose arguments are a new object holding only the function
\* name, then the caller's arguments in order; traceF the same at trace.
Thm_C5_StringPrependsFunction ==
    LastFirstArgTag("string") =>
        /\ OneCallAt(LevelOfF)
        /\ Len(out[1].args) = Len(last.args) + 1
        /\ \A i \in 1..Len(last.args) : out[1].args[i + 1] = last.args[i]
        /\ out[1].args[1].t = "ref"
        /\ out[1].args[1].n > NObj
        /\ out[1].args[1].n \in DOMAIN heap
        /\ heap[out[1].args[1].n] =
              Obj("plain", [k \in Keys |-> IF k = "_fun" THEN last.fn ELSE Absent])

Wit_C5_StringPrependsFunction ==
    /\ last.op = "debugF"
    /\ last.fn = Str("f")
    /\ last.args = <<Str("msg"), Str("msg"), Ref(1)>>
    /\ Len(out) = 1
    /\ Len(out[1].args) = 4
    /\ heap[out[1].args[1].n].fields["_fun"] = Str("f")

\* C6: a plain severity method makes exactly one call on the wrapped sink,
\* at its own level, with the caller's arguments in order, whatever level
\* and enabled flag the sink was configured with.
Thm_C6_PlainForwards ==
    last.op \in Levels =>
        /\ OneCallAt(last.op)
        /\ out[1].args = last.args
        /\ heap = CallerHeap

Wit_C6_PlainForwards ==
    /\ last.op = "warn"
    /\ last.args = <<Ref(1), Str("msg"), Ref(1)>>
    /\ loggerConfig.enabled = Bool(FALSE)
    /\ loggerConfig.level = Str("info")
    /\ Len(out) = 1
    /\ out[1].sink # baseLogger

\* the fields bound to the base logger: the identity field alone
BaseBindings == sinks[baseLogger].bindings

\* the pino logger the last factory call returned
Returned ==
    IF last.op = "getContextLogger" THEN loggers[last.ret].pinoLogger ELSE last.ret

\* C7: getContextLogger(m, c) with both names given wraps a logger that is
\* not the base logger and whose bound fields are identity, module, class
\* in that order; it is derived from the module-bound child of the base.
Thm_C7_ContextBindingOrder ==
    (last.op = "getContextLogger" /\ last.m # Undef /\ last.c # Undef) =>
        LET s == Returned
            p == sinks[s].parent
        IN  /\ s # baseLogger
            /\ Len(BaseBindings) = 1
            /\ BaseBindings[1].key = "_app"
            /\ sinks[s].bindings =
                  BaseBindings \o <<Binding("_mod", last.m), Binding("_cls", last.c)>>
            /\ p # baseLogger
            /\ sinks[p].parent = baseLogger
            /\ sinks[p].bindings = BaseBindings \o <<Binding("_mod", last.m)>>

Wit_C7_ContextBindingOrder ==
    /\ last.op = "getContextLogger"
    /\ last.m = Str("mod")
    /\ last.c = Str("")
    /\ Len(sinks[Returned].bindings) = 3
    /\ sinks[Returned].bindings[1].value = ProcessPid

\* C8: getLogger and getContextLogger without names use the base logger
\* itself and derive no child; a name counts as given whenever it is not
\* undefined, so each given name, the empty string included, derives one.
Thm_C8_NoNamesReturnsBase ==
    last.op \in {"getLogger", "getContextLogger"} =>
        /\ (last.m = Undef /\ last.c = Undef) =>
              /\ Returned = baseLogger
              /\ Len(sinks) = last.n
              /\ Len(BaseBindings) = 1
              /\ BaseBindings[1].key = "_app"
        /\ Len(sinks) = last.n + (IF last.m # Undef THEN 1 ELSE 0)
                               + (IF last.c # Undef THEN 1 ELSE 0)
        /\ (last.m # Undef \/ last.c # Undef) =>
              /\ Returned = Len(sinks)
              /\ Returned > last.n

Wit_C8_NoNamesReturnsBase ==
    /\ last.op = "getContextLogger"
    /\ last.m = Undef
    /\ last.c = Undef
    /\ Returned = baseLogger
    /\ Len(sinks) = 3
    /\ sinks[3].bindings[2] = Binding("_mod", Str(""))

\* C9: without a 'logger' section pino is constructed with level "info"
\* and enabled true; enabled is false exactly when the configured value is
\* the boolean false, and true otherwise.
Thm_C9_ConfigDefaults ==
    /\ ~config.hasLogger =>
          loggerConfig = [level |-> Str("info"), enabled |-> Bool(TRUE)]
    /\ loggerConfig.enabled \in {Bool(TRUE), Bool(FALSE)}
    /\ loggerConfig.enabled = Bool(FALSE) <=>
          (config.hasLogger /\ config.enabled = Bool(FALSE))

Wit_C9_ConfigDefaults ==
    /\ config.hasLogger
    /\ config.enabled = Num(0)
    /\ loggerConfig.enabled = Bool(TRUE)
    /\ last.op = "getLogger"

\* C10 as stated: a first payload argument that is a number, a boolean,
\* null, undefined or an array is passed through unchanged.
Cex_C10_ArrayPassedThrough ==
    (\/ LastFirstArgTag("number")
     \/ LastFirstArgTag("boolean")
     \/ LastFirstArgTag("null")
     \/ LastFirstArgTag("undefined")
     \/ LastFirstArgKind("array")) => PassedThrough(LevelOfF)

\* C10 amended: a first payload argument that is a number, a boolean, null
\* or undefined is passed through unchanged in one call at the matching
\* level; an array is handled as an object: the sink receives a new plain
\* object with the array's elements under their indices and the
\* function-name field.
Thm_C10_PrimitivePassedThrough ==
    /\ (\/ LastFirstArgTag("number")
        \/ LastFirstArgTag("boolean")
        \/ LastFirstArgTag("null")
        \/ LastFirstArgTag("undefined")) => PassedThrough(LevelOfF)
    /\ LastFirstArgKind("array") =>
          /\ OneCallAt(LevelOfF)
          /\ Len(out[1].args) = Len(last.args)
          /\ \A i \in 2..Len(last.args) : out[1].args[i] = last.args[i]
          /\ out[1].args[1].t = "ref"
          /\ out[1].args[1].n > NObj
          /\ out[1].args[1].n \in DOMAIN heap
          /\ heap[out[1].args[1].n] =
                Obj("plain", [k \in Keys |->
                                IF k = "_fun" THEN last.fn
                                ELSE CallerHeap[last.args[1].n].fields[k]])

Wit_C10_PrimitivePassedThrough ==
    /\ last.op = "debugF"
    /\ last.args = <<Null, Str("msg"), Ref(1)>>
    /\ Len(out) = 1
    /\ out[1].args[1] = Null

====
